---- MODULE Spec2Model ----
(***************************************************************************)
(* Model of the Lighthouse SDK: the client object of src/src/App.tsx       *)
(* (constructor, trackFetch, sendTrace), the Node variant of it in         *)
(* test-sdk.js, and a caller that consumes what trackFetch hands back;     *)
(* and of the page of src/src/App.tsx (function App): its mount effect,    *)
(* health checks, connection list, and the handlers of its two test        *)
(* buttons.                                                                *)
(*                                                                         *)
(* JavaScript strings are modelled as run-length encoded texts: a text is  *)
(* a sequence of runs [c, n], "the character c repeated n times", no run   *)
(* empty and no two neighbouring runs of the same character.  This keeps   *)
(* texts of 10,000 and 50,000 units small while length, substring,         *)
(* concatenation and the prefix relation stay exact.                       *)
(***************************************************************************)
EXTENDS Integers, Sequences, FiniteSets, TLC

(***************************************************************************)
(* Program constants and model bounds                                      *)
(***************************************************************************)
MaxPromptLen == 10000
MaxResponseLen == 50000
CharsPerToken == 4
MicroUsdPerToken == 2
MaxDelay == 1

(***************************************************************************)
(* Texts (JavaScript strings)                                              *)
(***************************************************************************)
EmptyText == <<>>

Rep(c, n) == IF n = 0 THEN <<>> ELSE <<[c |-> c, n |-> n]>>

RECURSIVE TextLen(_)
TextLen(t) == IF t = <<>> THEN 0 ELSE t[1].n + TextLen(Tail(t))

Concat(a, b) ==
  IF a = <<>> THEN b
  ELSE IF b = <<>> THEN a
  ELSE IF a[Len(a)].c = b[1].c
    THEN SubSeq(a, 1, Len(a) - 1)
           \o <<[c |-> b[1].c, n |-> a[Len(a)].n + b[1].n]>>
           \o Tail(b)
    ELSE a \o b

RECURSIVE Lit(_)
Lit(chars) ==
  IF chars = <<>> THEN <<>>
  ELSE Concat(Rep(chars[1], 1), Lit(Tail(chars)))

\* text.substring(0, k)
RECURSIVE Substring(_, _)
Substring(t, k) ==
  IF TextLen(t) <= k THEN t
  ELSE IF k = 0 THEN <<>>
  ELSE IF t[1].n <= k
    THEN Concat(<<t[1]>>, Substring(Tail(t), k - t[1].n))
    ELSE <<[c |-> t[1].c, n |-> k]>>

\* p is an initial segment of t (defined on the runs, not through Substring)
RECURSIVE IsPrefix(_, _)
IsPrefix(p, t) ==
  \/ p = <<>>
  \/ /\ t # <<>>
     /\ p[1].c = t[1].c
     /\ \/ Len(p) = 1 /\ p[1].n <= t[1].n
        \/ p[1].n = t[1].n /\ IsPrefix(Tail(p), Tail(t))

Digits == <<"0", "1", "2", "3", "4", "5", "6", "7", "8", "9">>

RECURSIVE NumToText(_)
NumToText(n) ==
  IF n < 10 THEN Rep(Digits[n + 1], 1)
  ELSE Concat(NumToText(n \div 10), Rep(Digits[(n % 10) + 1], 1))

(***************************************************************************)
(* JavaScript values: strings, numbers, booleans, undefined, null and      *)
(* objects (arrays included) whose content does not matter                 *)
(***************************************************************************)
JS(t, s, n) == [t |-> t, s |-> s, n |-> n]
Undef == JS("undefined", <<>>, 0)
Null == JS("null", <<>>, 0)
Str(s) == JS("string", s, 0)
Num(n) == JS("number", <<>>, n)
JSTrue == JS("boolean", <<>>, 1)
JSFalse == JS("boolean", <<>>, 0)
Obj == JS("object", <<>>, 0)

IsString(v) == v.t = "string"

\* the truthiness test of `if (v)` and `v || d`
Truthy(v) ==
  CASE v.t = "string" -> v.s # <<>>
    [] v.t = "number" -> v.n # 0
    [] v.t = "boolean" -> v.n = 1
    [] v.t = "object" -> TRUE
    [] OTHER -> FALSE

\* a || b
OrElse(a, b) == IF Truthy(a) THEN a ELSE b

\* String(v)
ToStr(v) ==
  CASE v.t = "string" -> v.s
    [] v.t = "number" -> NumToText(v.n)
    [] v.t = "boolean" ->
         IF v.n = 1 THEN Lit(<<"t", "r", "u", "e">>)
                    ELSE Lit(<<"f", "a", "l", "s", "e">>)
    [] v.t = "null" -> Lit(<<"n", "u", "l", "l">>)
    [] v.t = "undefined" ->
         Lit(<<"u", "n", "d", "e", "f", "i", "n", "e", "d">>)
    [] OTHER -> Lit(<<"[", "o", "b", "j", "e", "c", "t", " ",
                      "O", "b", "j", "e", "c", "t", "]">>)

(***************************************************************************)
(* Inputs of trackFetch(url, options, metadata)                            *)
(***************************************************************************)
\* A metadata or trace-metadata object: a map from keys to JavaScript values
EmptyMap == [k \in {} |-> Undef]

\* { ...base, ...over }: the later spread wins on a shared key
Spread(base, over) ==
  [k \in DOMAIN base \cup DOMAIN over |->
     IF k \in DOMAIN over THEN over[k] ELSE base[k]]

\* metadata?.key
Get(metadata, k) ==
  IF metadata.present /\ k \in DOMAIN metadata.m THEN metadata.m[k] ELSE Undef

\* The request body.  A string body is represented by what JSON.parse makes
\* of it: a syntax error (valid = FALSE) or the parsed document.
Doc(t, hasPrompt, p) == [t |-> t, hasPrompt |-> hasPrompt, prompt |-> p]
Body(kind, valid, doc) == [kind |-> kind, valid |-> valid, doc |-> doc]
NoDoc == Doc("null", FALSE, Undef)
NoBody == Body("none", FALSE, NoDoc)

\* if (options?.body): '' and undefined are falsy
BodyTruthy(options) ==
  options.present /\ options.body.kind \in {"string", "object"}

\* doc.prompt, for a parsed document other than null
PropPrompt(doc) == IF doc.t = "object" /\ doc.hasPrompt THEN doc.prompt ELSE Undef

Url == Str(Lit(<<"h", "t", "t", "p", ":", "/", "/", "a", "p", "i">>))

ShortPrompt == Rep("p", 13)
TwoRunPrompt == <<[c |-> "a", n |-> MaxPromptLen - 1], [c |-> "b", n |-> 2001]>>

\* metadata objects a caller passes
Meta(m) == [present |-> TRUE, m |-> m]
NoMetadata == [present |-> FALSE, m |-> EmptyMap]
CustomProvider == "provider" :> Str(Rep("c", 6))

MetadataInputs ==
  { NoMetadata,
    Meta(EmptyMap),
    Meta("prompt" :> Str(EmptyText)),
    Meta("prompt" :> Num(7)),
    Meta("prompt" :> Str(Rep("p", MaxPromptLen))),
    Meta("prompt" :> Str(TwoRunPrompt)),
    Meta(("prompt" :> Str(ShortPrompt)) @@ CustomProvider
           @@ ("model" :> Str(Rep("m", 8)))),
    Meta(("prompt" :> Str(ShortPrompt)) @@ ("provider" :> Str(EmptyText))),
    Meta(("url" :> Str(Rep("x", 5))) @@ ("statusCode" :> Num(999))
           @@ ("method" :> Undef) @@ ("error" :> Undef)) }

BodyInputs ==
  { Body("empty", FALSE, NoDoc),
    Body("object", FALSE, NoDoc),
    Body("string", FALSE, NoDoc),
    Body("string", TRUE, Doc("null", FALSE, Undef)),
    Body("string", TRUE, Doc("number", FALSE, Undef)),
    Body("string", TRUE, Doc("object", FALSE, Undef)),
    Body("string", TRUE, Doc("object", TRUE, Str(EmptyText))),
    Body("string", TRUE, Doc("object", TRUE, Str(Rep("q", 5)))),
    Body("string", TRUE, Doc("object", TRUE, Str(Rep("q", MaxPromptLen + 1)))),
    Body("string", TRUE, Doc("object", TRUE, Num(7))),
    Body("string", TRUE, Doc("object", TRUE, Obj)) }

Post == Str(Lit(<<"P", "O", "S", "T">>))
Opts(method, body) == [present |-> TRUE, method |-> method, body |-> body]
NoOptions == [present |-> FALSE, method |-> Undef, body |-> NoBody]

OptionsInputs ==
  { NoOptions, Opts(Undef, NoBody), Opts(Str(EmptyText), NoBody),
    Opts(Str(Lit(<<"G", "E", "T">>)), NoBody) }
  \cup { Opts(Post, b) : b \in BodyInputs }

(***************************************************************************)
(* What the wrapped fetch can do                                           *)
(***************************************************************************)
Statuses == {200, 404}
IsOk(status) == 200 <= status /\ status <= 299

ResponseTexts ==
  { EmptyText, Rep("r", 6), Rep("r", MaxResponseLen),
    <<[c |-> "r", n |-> MaxResponseLen - 1], [c |-> "s", n |-> 10001]>> }

\* A thrown value: where it was thrown (values of different origin are
\* different objects), whether it is an Error object, and its message
Err(origin, isError, message) ==
  [origin |-> origin, isError |-> isError, message |-> message]
NoError == Err("none", FALSE, EmptyText)
FailedToFetch ==
  Err("call", TRUE, Lit(<<"F", "a", "i", "l", "e", "d", " ", "t", "o", " ",
                  "f", "e", "t", "c", "h">>))
\* a rejection whose message quotes a long caller-supplied URL
LongError == Err("call", TRUE, Rep("u", MaxResponseLen))
\* a rejection with a value that is no Error object
NonError == Err("call", FALSE, Rep("z", 3))
FetchErrors == {FailedToFetch, LongError, NonError}

\* TypeError: prompt.substring is not a function
NotAFunction ==
  Err("sdk", TRUE, Lit(<<"p", "r", "o", "m", "p", "t", ".", "s", "u", "b", "s", "t",
                  "r", "i", "n", "g", " ", "i", "s", " ", "n", "o", "t", " ",
                  "a", " ", "f", "u", "n", "c", "t", "i", "o", "n">>))

(***************************************************************************)
(* Lighthouse.trackFetch: the pure parts                                   *)
(***************************************************************************)
\* The effective prompt: a JavaScript value, a string or not
ResolvePrompt(options, metadata) ==
  IF Truthy(Get(metadata, "prompt"))
    THEN Str(ToStr(Get(metadata, "prompt")))
  ELSE IF BodyTruthy(options)
    THEN IF options.body.kind = "string"
           THEN IF ~options.body.valid \/ options.body.doc.t = "null"
                  THEN Str(EmptyText)
                  ELSE OrElse(PropPrompt(options.body.doc), Str(EmptyText))
           ELSE OrElse(Undef, Str(EmptyText))
  ELSE Str(EmptyText)

OpenAI == Str(Lit(<<"o", "p", "e", "n", "a", "i">>))
Unknown == Str(Lit(<<"u", "n", "k", "n", "o", "w", "n">>))
\* Variant: metadata?.provider with no default
ResolveProviderNoDefault(metadata) == Get(metadata, "provider")

\* (metadata?.provider as string) || 'openai'
ResolveProvider(metadata) == OrElse(Get(metadata, "provider"), OpenAI)

CeilDiv(a, b) == (a + b - 1) \div b

\* Variant: Math.floor in place of Math.ceil
TokensUsedFloor(promptText, responseText) ==
  (TextLen(promptText) + TextLen(responseText)) \div CharsPerToken

\* Math.ceil((prompt.length + responseText.length) / 4)
TokensUsed(promptText, responseText) ==
  CeilDiv(TextLen(promptText) + TextLen(responseText), CharsPerToken)

\* (tokensUsed / 1000) * 0.002 dollars, held in millionths of a dollar
CostUsd(tokensUsed) == tokensUsed * MicroUsdPerToken

Get_ == Str(Lit(<<"G", "E", "T">>))

SynthMetadata(url, options, status) ==
  ("url" :> url)
    @@ ("method" :> OrElse(IF options.present THEN options.method ELSE Undef, Get_))
    @@ ("statusCode" :> Num(status))

\* Variant: { ...metadata, url, method, statusCode }
MergeMetadataSynthWins(synth, metadata) ==
  IF metadata.present THEN Spread(metadata.m, synth) ELSE synth

\* { url, method, statusCode, ...metadata }
MergeMetadata(synth, metadata) ==
  IF metadata.present THEN Spread(synth, metadata.m) ELSE synth

Trace(p, r, tokens, cost, latency, prov, md) ==
  [prompt |-> p, response |-> r, tokensUsed |-> tokens, costUsd |-> cost,
   latencyMs |-> latency, provider |-> prov, metadata |-> md]

NoTrace == Trace(EmptyText, EmptyText, 0, 0, 0, Undef, EmptyMap)

SuccessTrace(promptText, responseText, latency, prov, url, options, status, metadata) ==
  Trace(Substring(promptText, MaxPromptLen),
        Substring(responseText, MaxResponseLen),
        TokensUsed(promptText, responseText),
        CostUsd(TokensUsed(promptText, responseText)),
        latency, prov,
        MergeMetadata(SynthMetadata(url, options, status), metadata))

UnknownError ==
  Lit(<<"U", "n", "k", "n", "o", "w", "n", " ", "e", "r", "r", "o", "r">>)
ErrorPrefix == Lit(<<"E", "r", "r", "o", "r", ":", " ">>)

\* error instanceof Error ? error.message : 'Unknown error'
ErrorMessage(error) == IF error.isError THEN error.message ELSE UnknownError

\* Variant: the failure Trace carries the call's url and method as well
FailureMetadataCallShape(errorMessage) ==
  ("url" :> Url) @@ ("method" :> Get_) @@ ("error" :> JSTrue)
    @@ ("errorMessage" :> Str(errorMessage))

FailureMetadata(errorMessage) ==
  ("error" :> JSTrue) @@ ("errorMessage" :> Str(errorMessage))

\* Variant: the failure Trace counts tokens for the prompt and the message
\* and carries no latency, as the hand-built Trace of testDemoBackend does
FailureTraceCountsTokens(promptText, error, latency, prov) ==
  Trace(Substring(promptText, MaxPromptLen),
        Concat(ErrorPrefix, ErrorMessage(error)),
        TokensUsed(promptText, ErrorMessage(error)) + 1,
        CostUsd(TokensUsed(promptText, ErrorMessage(error)) + 1),
        0, OrElse(prov, Unknown),
        FailureMetadata(ErrorMessage(error)))

FailureTrace(promptText, error, latency, prov) ==
  Trace(Substring(promptText, MaxPromptLen),
        Concat(ErrorPrefix, ErrorMessage(error)),
        0, 0, latency, OrElse(prov, Unknown),
        FailureMetadata(ErrorMessage(error)))

(***************************************************************************)
(* Response objects                                                        *)
(***************************************************************************)
Response(status, body) == [status |-> status, body |-> body, bodyUsed |-> FALSE]
NoResponse == Response(0, EmptyText)

\* Variant: response.text(), which consumes the response itself
StartReadNoClone(r) ==
  [original |-> [r EXCEPT !.bodyUsed = TRUE], text |-> r.body]

\* response.clone().text(): the copy is consumed, the original is not
StartRead(r) ==
  [original |-> r, text |-> r.body]

(***************************************************************************)
(* State.  The model follows one trackFetch call at a time: a caller that  *)
(* awaits each call before it makes the next.  When the next call starts,  *)
(* the model stops following the forwarding the earlier call started: that *)
(* forwarding reads only its own Trace and the client's configuration and  *)
(* writes nothing a later call reads.                                      *)
(***************************************************************************)
VARIABLES
  client,       \* this.apiKey, this.endpoint, this.baseUrl of the client
  enabled,      \* this.enabled of the client
  pc,           \* where the trackFetch call under way (or last made) stands
  args,         \* its arguments url, options, metadata
  elapsed,      \* Date.now() - startTime of the current call
  prompt,       \* its local prompt
  provider,     \* its local provider
  response,     \* the Response object the wrapped fetch resolved with
  fetchError,   \* what the wrapped fetch or the body read rejected with
  built,        \* the Trace objects the current call has built, in order
  sendCalls,    \* how often the current call has invoked sendTrace
  settled,      \* how the promise of the current call settled
  fwd,          \* state of the promise its sendTrace call returned
  posts,        \* POST requests it has issued to the trace endpoint
  warnings,     \* console.warn('Lighthouse error:', ...) lines it caused
  callerRead,   \* what the caller's one read of the returned body gave
  caught        \* Node SDK: the error its catch block holds while it forwards

\* The page (function App): its module-level flag, its React state and the
\* position of each of its asynchronous handlers
VARIABLES
  isDevelopment,         \* import.meta.env.DEV
  mounted,               \* the effect of the first render has run
  loading,               \* useState(false)
  result,                \* useState<TestResult | null>(null)
  pageError,             \* error: useState<string | null>(null)
  databaseConnections,   \* useState<DatabaseConnection[]>([])
  selectedConnectionId,  \* useState<string>('')
  connectionLoading,     \* useState(false)
  backendStatus,         \* useState('checking')
  demoBackendStatus,     \* useState('checking')
  demoPrompt,            \* useState('What hospitals are in the database?')
  loadPc,                \* where the run of loadDatabaseConnections stands
  loadSeen,              \* selectedConnectionId as that run's closure holds it
  registry,              \* what the registry gave the last run that ended
  healthPc,              \* where the run of checkBackendStatus stands
  demoHealthPc,          \* where the run of checkDemoBackendStatus stands
  testPc,                \* where the run of testMockAPI / testDemoBackend stands
  demoSeen,              \* demoPrompt and selectedConnectionId as that run holds them
  demoReply,             \* the JSON document the last run of testDemoBackend got
  inFlight,              \* the test runs that have started and not yet ended
  requests               \* the URLs the page has requested from the backend

appVars ==
  <<isDevelopment, mounted, loading, result, pageError, databaseConnections,
    selectedConnectionId, connectionLoading, backendStatus, demoBackendStatus,
    demoPrompt, loadPc, loadSeen, registry, healthPc, demoHealthPc, testPc,
    demoSeen, demoReply, inFlight, requests>>

\* what a run of loadDatabaseConnections writes, selectedConnectionId and
\* backendStatus apart
loadVars == <<databaseConnections, connectionLoading, loadPc, loadSeen, registry>>

\* what the two health checks write, backendStatus apart
healthVars == <<demoBackendStatus, healthPc, demoHealthPc>>

\* what a run of testMockAPI or testDemoBackend writes
testVars == <<loading, result, pageError, testPc, demoSeen, demoReply, inFlight>>

sdkVars ==
  <<client, enabled, pc, args, elapsed, prompt, provider, response,
    fetchError, built, sendCalls, settled, fwd, posts, warnings, callerRead,
    caught>>

vars ==
  <<client, enabled, pc, args, elapsed, prompt, provider, response,
    fetchError, built, sendCalls, settled, fwd, posts, warnings, callerRead,
    caught, appVars>>

Delays == 0 .. MaxDelay

Settled(kind, bundle, error, trace) ==
  [kind |-> kind, bundle |-> bundle, error |-> error, trace |-> trace]
NotSettled == Settled("none", FALSE, NoError, NoTrace)

\* this.enabled = config.enabled !== false
EnabledOf(configEnabled) == configEnabled # "false"

\* A field of the config object: given with a string value, or left out
Given(value) == [present |-> TRUE, value |-> value]
Absent == [present |-> FALSE, value |-> ""]

\* field || fallback: a field left out and the empty string are both falsy
OrDefault(field, fallback) ==
  IF field.present /\ field.value # "" THEN field.value ELSE fallback

Config(apiKey, endpoint, baseUrl, configEnabled) ==
  [apiKey |-> apiKey, endpoint |-> endpoint, baseUrl |-> baseUrl,
   enabled |-> configEnabled]

ApiKey == "lh_83513bd689b44ab9b53b679d689b50a9"

\* the config of the module-level client when import.meta.env.DEV is true
DevConfig == Config(ApiKey, Given("/api/sdk/traces"), Given(""), "absent")
\* and when it is false
ProdConfig ==
  Config(ApiKey, Given("http://localhost:8081/api/sdk/traces"),
         Given("http://localhost:8081"), "absent")
\* a client switched off, every other field left to its default
OffConfig == Config(ApiKey, Absent, Absent, "false")

ConfigInputs == {DevConfig, ProdConfig, OffConfig}

DefaultEndpoint == "http://localhost:8080/api/sdk/traces"
DefaultBaseUrl == "http://localhost:8080"

\* constructor(config): the fields other than enabled
Construct(config) ==
  [apiKey |-> config.apiKey,
   endpoint |-> OrDefault(config.endpoint, DefaultEndpoint),
   baseUrl |-> OrDefault(config.baseUrl, DefaultBaseUrl)]

\* JSON.stringify(trace): a property whose value is undefined is left out
JsonStringify(trace) ==
  [trace EXCEPT !.metadata =
     [k \in {j \in DOMAIN trace.metadata : trace.metadata[j] # Undef}
        |-> trace.metadata[k]]]

\* The request sendTrace hands to fetch
PostRequest(trace) ==
  [url |-> client.endpoint,
   method |-> "POST",
   headers |-> [contentType |-> "application/json", apiKey |-> client.apiKey],
   body |-> JsonStringify(trace)]

\* Texts of the page are sequences of words
DefaultPrompt == <<"What", "hospitals", "are", "in", "the", "database?">>

\* null, the initial value of result
Result(type, hasTrace, trace, hasQueryResult, message) ==
  [set |-> TRUE, type |-> type, hasTrace |-> hasTrace, trace |-> trace,
   hasQueryResult |-> hasQueryResult, message |-> message]
NoResult == [Result("none", FALSE, NoTrace, FALSE, <<>>) EXCEPT !.set = FALSE]

\* setError(text)
Message(text) == [set |-> TRUE, text |-> text]

\* null, the initial value of error
NoMessage == [set |-> FALSE, text |-> <<>>]

\* The JSON document the query endpoint answers with; a field left out is
\* undefined
Metrics(tokensUsed, costUsd, latencyMs, prov) ==
  [tokensUsed |-> tokensUsed, costUsd |-> costUsd, latencyMs |-> latencyMs,
   provider |-> prov]
NoMetrics == Metrics(Undef, Undef, Undef, Undef)
Verdict(confidenceScore, hallucinationsDetected, supportedClaims, totalClaims) ==
  [confidenceScore |-> confidenceScore,
   hallucinationsDetected |-> hallucinationsDetected,
   supportedClaims |-> supportedClaims, totalClaims |-> totalClaims]
NoVerdict == Verdict(Undef, Undef, Undef, Undef)
DemoData(success, answer, metrics, verdict, databaseContext, errorField) ==
  [t |-> "object", success |-> success, response |-> answer,
   tokensUsed |-> metrics.tokensUsed, costUsd |-> metrics.costUsd,
   latencyMs |-> metrics.latencyMs, provider |-> metrics.provider,
   confidenceScore |-> verdict.confidenceScore,
   hallucinationsDetected |-> verdict.hallucinationsDetected,
   supportedClaims |-> verdict.supportedClaims,
   totalClaims |-> verdict.totalClaims,
   databaseContext |-> databaseContext, error |-> errorField]
NullData ==
  [DemoData(Undef, Undef, NoMetrics, NoVerdict, Undef, Undef) EXCEPT !.t = "null"]
NoData ==
  [DemoData(Undef, Undef, NoMetrics, NoVerdict, Undef, Undef) EXCEPT !.t = "none"]

Seen(promptText, connectionId) ==
  [prompt |-> promptText, connectionId |-> connectionId]
NothingSeen == Seen(<<>>, "")

\* what a run of getDatabaseConnections was answered
Registry(kind, list) == [kind |-> kind, list |-> list]
NotAsked == Registry("none", <<>>)

InitWith(configs) ==
  /\ \E config \in configs :
       /\ client = Construct(config)
       /\ enabled = EnabledOf(config.enabled)
       /\ isDevelopment = (config = DevConfig)
  /\ mounted = FALSE
  /\ loading = FALSE
  /\ result = NoResult
  /\ pageError = NoMessage
  /\ databaseConnections = <<>>
  /\ selectedConnectionId = ""
  /\ connectionLoading = FALSE
  /\ backendStatus = "checking"
  /\ demoBackendStatus = "checking"
  /\ demoPrompt = DefaultPrompt
  /\ loadPc = "idle"
  /\ loadSeen = ""
  /\ registry = NotAsked
  /\ healthPc = "idle"
  /\ demoHealthPc = "idle"
  /\ testPc = "idle"
  /\ demoSeen = NothingSeen
  /\ demoReply = NoData
  /\ inFlight = 0
  /\ requests = {}
  /\ pc = "idle"
  /\ args = [url |-> Url, options |-> NoOptions, metadata |-> NoMetadata]
  /\ elapsed = 0
  /\ prompt = Str(EmptyText)
  /\ provider = OpenAI
  /\ response = NoResponse
  /\ fetchError = NoError
  /\ built = <<>>
  /\ sendCalls = 0
  /\ settled = NotSettled
  /\ fwd = "none"
  /\ posts = <<>>
  /\ warnings = <<>>
  /\ callerRead = "none"
  /\ caught = NoError

Init == InitWith(ConfigInputs)

(***************************************************************************)
(* Lighthouse.sendTrace and the .catch handler trackFetch attaches         *)
(***************************************************************************)
\* Variant: sendTrace without `if (!this.enabled) return`
SendTraceIgnoresEnabled(trace) ==
  /\ sendCalls' = sendCalls + 1
  /\ fwd' = "posting"
  /\ posts' = Append(posts, PostRequest(trace))

\* The call this.sendTrace(trace): runs up to its first await
SendTrace(trace) ==
  /\ sendCalls' = sendCalls + 1
  /\ IF enabled
       THEN /\ fwd' = "posting"
            /\ posts' = Append(posts, PostRequest(trace))
       ELSE /\ fwd' = "skipped"
            /\ posts' = posts

\* Variant: no .catch handler; the rejection becomes the call's own failure
OnForwardRejectedPropagates(err) ==
  /\ fwd' = "rejected"
  /\ settled' = Settled("throw", FALSE, Err("forward", TRUE, Rep("L", 20)), NoTrace)
  /\ pc' = "thrown"
  /\ UNCHANGED <<appVars, client, enabled, args, elapsed, prompt, provider, response,
                 fetchError, built, sendCalls, posts, warnings, callerRead,
                 caught>>

\* .catch(err => console.warn('Lighthouse error:', err))
OnForwardRejected(err) ==
  /\ fwd' = "logged"
  /\ warnings' = Append(warnings, err)
  /\ UNCHANGED <<appVars, client, enabled, pc, args, elapsed, prompt, provider,
                 response, fetchError, built, sendCalls, settled, posts,
                 callerRead, caught>>

\* the POST is answered with a 2xx status: sendTrace goes on to response.json()
PostOk ==
  /\ fwd = "posting"
  /\ fwd' = "parsing"
  /\ UNCHANGED <<appVars, client, enabled, pc, args, elapsed, prompt, provider,
                 response, fetchError, built, sendCalls, settled, posts,
                 warnings, callerRead, caught>>

\* Variant: a POST answered with another status is issued again
PostNotOkRetries ==
  /\ fwd = "posting"
  /\ posts' = Append(posts, posts[Len(posts)])
  /\ UNCHANGED <<appVars, client, enabled, pc, args, elapsed, prompt, provider,
                 response, fetchError, built, sendCalls, settled, fwd,
                 warnings, callerRead, caught>>

\* the POST is answered with another status: sendTrace throws
PostNotOk ==
  /\ fwd = "posting"
  /\ OnForwardRejected("Lighthouse API error")

\* the POST fails at the network level
PostNetworkError ==
  /\ fwd = "posting"
  /\ OnForwardRejected("Failed to fetch")

JsonOk ==
  /\ fwd = "parsing"
  /\ fwd' = "resolved"
  /\ UNCHANGED <<appVars, client, enabled, pc, args, elapsed, prompt, provider,
                 response, fetchError, built, sendCalls, settled, posts,
                 warnings, callerRead, caught>>

JsonFail ==
  /\ fwd = "parsing"
  /\ OnForwardRejected("SyntaxError")

(***************************************************************************)
(* Lighthouse.trackFetch                                                   *)
(***************************************************************************)
\* The call, up to `await fetch(url, options)`
StartCall(options, metadata) ==
  /\ pc = "idle"
  /\ args' = [url |-> Url, options |-> options, metadata |-> metadata]
  /\ elapsed' = 0
  /\ prompt' = ResolvePrompt(options, metadata)
  /\ provider' = ResolveProvider(metadata)
  /\ pc' = "fetching"
  /\ response' = NoResponse
  /\ fetchError' = NoError
  /\ built' = <<>>
  /\ sendCalls' = 0
  /\ settled' = NotSettled
  /\ UNCHANGED <<client, enabled, fwd, posts, warnings, callerRead, caught>>

\* a call made by a caller other than the page
Call(options, metadata) ==
  /\ StartCall(options, metadata)
  /\ UNCHANGED appVars

\* The rest of the try block once the response text is there
Succeed(responseText) ==
  LET trace == SuccessTrace(prompt.s, responseText, elapsed', provider,
                            args.url, args.options, response.status,
                            args.metadata)
  IN /\ built' = Append(built, trace)
     /\ SendTrace(trace)
     /\ settled' = Settled("return", FALSE, NoError, trace)
     /\ pc' = "returned"
     /\ UNCHANGED warnings

\* The catch block for a string prompt
Fail(error) ==
  LET trace == FailureTrace(prompt.s, error, elapsed', provider)
  IN /\ built' = Append(built, trace)
     /\ SendTrace(trace)
     /\ settled' = Settled("throw", TRUE, error, trace)
     /\ pc' = "thrown"
     /\ UNCHANGED warnings

\* prompt.substring is no function: the try block throws a TypeError, the
\* catch block throws it again before it has built a Trace
Crash ==
  /\ settled' = Settled("throw", FALSE, NotAFunction, NoTrace)
  /\ pc' = "thrown"
  /\ UNCHANGED <<built, sendCalls, fwd, posts, warnings>>

FetchResolve(status, body, d) ==
  /\ pc = "fetching"
  /\ elapsed' = elapsed + d
  /\ response' = StartRead(Response(status, body)).original
  /\ pc' = "reading"
  /\ UNCHANGED <<appVars, client, enabled, args, prompt, provider, fetchError, built,
                 sendCalls, settled, fwd, posts, warnings, callerRead,
                 caught>>

FetchReject(error, d) ==
  /\ pc = "fetching"
  /\ elapsed' = elapsed + d
  /\ fetchError' = error
  /\ IF IsString(prompt) THEN Fail(error) ELSE Crash
  /\ UNCHANGED <<appVars, client, enabled, args, prompt, provider, response,
                 callerRead, caught>>

\* Variant: a response that is not ok is taken to the catch block
ReadResolveChecksOk(d) ==
  /\ pc = "reading"
  /\ elapsed' = elapsed + d
  /\ IF ~IsString(prompt) THEN Crash
     ELSE IF IsOk(response.status) THEN Succeed(StartRead(response).text)
     ELSE Fail(Err("sdk", TRUE, Rep("H", 10)))
  /\ UNCHANGED <<appVars, client, enabled, args, prompt, provider, response, fetchError,
                 callerRead, caught>>

ReadResolve(d) ==
  /\ pc = "reading"
  /\ elapsed' = elapsed + d
  /\ IF IsString(prompt) THEN Succeed(StartRead(response).text) ELSE Crash
  /\ UNCHANGED <<appVars, client, enabled, args, prompt, provider, response,
                 fetchError, callerRead, caught>>

ReadReject(error, d) ==
  /\ pc = "reading"
  /\ elapsed' = elapsed + d
  /\ fetchError' = error
  /\ IF IsString(prompt) THEN Fail(error) ELSE Crash
  /\ UNCHANGED <<appVars, client, enabled, args, prompt, provider, response,
                 callerRead, caught>>

(***************************************************************************)
(* The caller: const data = await response.json()                          *)
(***************************************************************************)
CallerReadBody ==
  /\ pc = "returned"
  /\ callerRead = "none"
  /\ callerRead' = IF response.bodyUsed THEN "failed" ELSE "read"
  /\ response' = [response EXCEPT !.bodyUsed = TRUE]
  /\ UNCHANGED <<appVars, client, enabled, pc, args, elapsed, prompt, provider,
                 fetchError, built, sendCalls, settled, fwd, posts, warnings,
                 caught>>

(***************************************************************************)
(* The Node SDK script (test-sdk.js): Lighthouse.trackFetch awaits         *)
(* sendTrace inside its try block and inside its catch block.  A promise   *)
(* reaction runs right after the promise settles, so the settling of       *)
(* sendTrace and the continuation of trackFetch are one step.              *)
(***************************************************************************)
\* metadata?.prompt || ''
NodeResolvePrompt(metadata) == OrElse(Get(metadata, "prompt"), Str(EmptyText))

\* error.message: undefined for a thrown value that is no Error
NodeErrorMessage(error) == IF error.isError THEN Str(error.message) ELSE Undef

NodeFailureTrace(promptText, error, latency, prov) ==
  Trace(Substring(promptText, MaxPromptLen),
        Concat(ErrorPrefix, ToStr(NodeErrorMessage(error))),
        0, 0, latency, OrElse(prov, Unknown),
        ("error" :> JSTrue) @@ ("errorMessage" :> NodeErrorMessage(error)))

\* what sendTrace rejects with
ApiError == Err("forward", TRUE, Rep("L", 25))
ForwardNetworkError == Err("forward", TRUE, Rep("N", 15))
ForwardJsonError == Err("forward", TRUE, Rep("J", 16))

\* this.sendTrace(trace) up to its first await
NodeSendTrace(trace) ==
  /\ sendCalls' = sendCalls + 1
  /\ IF enabled
       THEN /\ fwd' = "node_posting"
            /\ posts' = Append(posts, PostRequest(trace))
       ELSE /\ fwd' = "skipped"
            /\ posts' = posts

NodeReturn ==
  /\ settled' = Settled("return", FALSE, NoError, NoTrace)
  /\ pc' = "returned"

NodeThrow(error) ==
  /\ settled' = Settled("throw", FALSE, error, NoTrace)
  /\ pc' = "thrown"

\* The catch block, entered with `error`
NodeCatch(error) ==
  IF IsString(prompt)
    THEN /\ built' = Append(built, NodeFailureTrace(prompt.s, error, elapsed',
                                                    provider))
         /\ NodeSendTrace(NodeFailureTrace(prompt.s, error, elapsed', provider))
         /\ caught' = error
         /\ IF enabled
              THEN pc' = "node_resending" /\ UNCHANGED settled
              ELSE NodeThrow(error)
    ELSE /\ NodeThrow(NotAFunction)
         /\ UNCHANGED <<built, sendCalls, fwd, posts, caught>>

NodeCall(options, metadata) ==
  /\ pc = "idle"
  /\ args' = [url |-> Url, options |-> options, metadata |-> metadata]
  /\ elapsed' = 0
  /\ prompt' = NodeResolvePrompt(metadata)
  /\ provider' = ResolveProvider(metadata)
  /\ pc' = "node_fetching"
  /\ UNCHANGED <<appVars, client, enabled, response, fetchError, built, sendCalls, settled,
                 fwd, posts, warnings, callerRead, caught>>

NodeFetchResolve(status, body, d) ==
  /\ pc = "node_fetching"
  /\ elapsed' = elapsed + d
  /\ response' = StartRead(Response(status, body)).original
  /\ pc' = "node_reading"
  /\ UNCHANGED <<appVars, client, enabled, args, prompt, provider, fetchError, built,
                 sendCalls, settled, fwd, posts, warnings, callerRead,
                 caught>>

NodeFetchReject(error, d) ==
  /\ pc = "node_fetching"
  /\ elapsed' = elapsed + d
  /\ fetchError' = error
  /\ NodeCatch(error)
  /\ UNCHANGED <<appVars, client, enabled, args, prompt, provider, response, warnings,
                 callerRead>>

NodeReadResolve(d) ==
  /\ pc = "node_reading"
  /\ elapsed' = elapsed + d
  /\ IF IsString(prompt)
       THEN /\ built' = Append(built,
                 SuccessTrace(prompt.s, StartRead(response).text, elapsed',
                              provider, args.url, args.options,
                              response.status, args.metadata))
            /\ NodeSendTrace(SuccessTrace(prompt.s, StartRead(response).text,
                                          elapsed', provider, args.url,
                                          args.options, response.status,
                                          args.metadata))
            /\ IF enabled
                 THEN pc' = "node_sending" /\ UNCHANGED settled
                 ELSE NodeReturn
            /\ UNCHANGED caught
       ELSE NodeCatch(NotAFunction)
  /\ UNCHANGED <<appVars, client, enabled, args, prompt, provider, response, fetchError,
                 warnings, callerRead>>

NodeReadReject(error, d) ==
  /\ pc = "node_reading"
  /\ elapsed' = elapsed + d
  /\ fetchError' = error
  /\ NodeCatch(error)
  /\ UNCHANGED <<appVars, client, enabled, args, prompt, provider, response, warnings,
                 callerRead>>

\* sendTrace resolved: trackFetch goes on after its await
NodeForwardResolved ==
  /\ fwd' = "resolved"
  /\ IF pc = "node_sending" THEN NodeReturn ELSE NodeThrow(caught)
  /\ UNCHANGED <<appVars, client, enabled, args, elapsed, prompt, provider, response,
                 fetchError, built, sendCalls, posts, warnings, callerRead,
                 caught>>

\* sendTrace rejected with `error`: the await throws it
NodeForwardRejected(error, d) ==
  /\ elapsed' = elapsed + d
  /\ IF pc = "node_sending"
       THEN NodeCatch(error)
       ELSE /\ fwd' = "rejected"
            /\ NodeThrow(error)
            /\ UNCHANGED <<built, sendCalls, posts, caught>>
  /\ UNCHANGED <<appVars, client, enabled, args, prompt, provider, response, fetchError,
                 warnings, callerRead>>

NodePostOk ==
  /\ fwd = "node_posting"
  /\ fwd' = "node_parsing"
  /\ UNCHANGED <<appVars, client, enabled, pc, args, elapsed, prompt, provider, response,
                 fetchError, built, sendCalls, settled, posts, warnings,
                 callerRead, caught>>

NodePostNotOk(d) ==
  /\ fwd = "node_posting"
  /\ NodeForwardRejected(ApiError, d)

NodePostNetworkError(d) ==
  /\ fwd = "node_posting"
  /\ NodeForwardRejected(ForwardNetworkError, d)

NodeJsonOk ==
  /\ fwd = "node_parsing"
  /\ NodeForwardResolved

NodeJsonFail(d) ==
  /\ fwd = "node_parsing"
  /\ NodeForwardRejected(ForwardJsonError, d)

\* The caller's handler ends: the result of the call and everything that hung
\* on it go out of scope
EndCall ==
  /\ pc \in {"returned", "thrown"}
  /\ pc' = "idle"
  /\ args' = [url |-> Url, options |-> NoOptions, metadata |-> NoMetadata]
  /\ elapsed' = 0
  /\ prompt' = Str(EmptyText)
  /\ provider' = OpenAI
  /\ response' = NoResponse
  /\ fetchError' = NoError
  /\ built' = <<>>
  /\ sendCalls' = 0
  /\ settled' = NotSettled
  /\ fwd' = "none"
  /\ posts' = <<>>
  /\ warnings' = <<>>
  /\ callerRead' = "none"
  /\ caught' = NoError
  /\ UNCHANGED <<client, enabled>>

CallerDone ==
  /\ EndCall
  /\ UNCHANGED appVars

Next ==
  \/ \E o \in OptionsInputs, m \in MetadataInputs : Call(o, m)
  \/ \E st \in Statuses, b \in ResponseTexts, d \in Delays : FetchResolve(st, b, d)
  \/ \E e \in FetchErrors, d \in Delays : FetchReject(e, d)
  \/ \E d \in Delays : ReadResolve(d)
  \/ \E e \in FetchErrors, d \in Delays : ReadReject(e, d)
  \/ CallerReadBody
  \/ CallerDone
  \/ PostOk
  \/ PostNotOk
  \/ PostNetworkError
  \/ JsonOk
  \/ JsonFail

Spec == Init /\ [][Next]_vars

NextNode ==
  \/ \E o \in OptionsInputs, m \in MetadataInputs : NodeCall(o, m)
  \/ \E st \in Statuses, b \in ResponseTexts, d \in Delays :
       NodeFetchResolve(st, b, d)
  \/ \E e \in FetchErrors, d \in Delays : NodeFetchReject(e, d)
  \/ \E d \in Delays : NodeReadResolve(d)
  \/ \E e \in FetchErrors, d \in Delays : NodeReadReject(e, d)
  \/ NodePostOk
  \/ \E d \in Delays : NodePostNotOk(d)
  \/ \E d \in Delays : NodePostNetworkError(d)
  \/ NodeJsonOk
  \/ \E d \in Delays : NodeJsonFail(d)
  \/ CallerReadBody
  \/ CallerDone

\* the Node SDK alone
SpecNode == Init /\ [][NextNode]_vars

\* a caller that uses either SDK for each call
SpecSdks == Init /\ [][Next \/ NextNode]_vars

(***************************************************************************)
(* The page: URLs, the mount effect, the two health checks and             *)
(* loadDatabaseConnections with Lighthouse.getDatabaseConnections.         *)
(* A template literal `${base}${path}` is kept as the pair of its parts: a *)
(* URL is relative exactly when its base part is empty.                    *)
(***************************************************************************)
Href(base, path) == [base |-> base, path |-> path]

\* this.baseUrl ? `${this.baseUrl}/api/...` : '/api/...'
ApiUrl(baseUrl, path) ==
  IF baseUrl # "" THEN Href(baseUrl, path) ELSE Href("", path)

QueryWithDbUrl(c) == ApiUrl(c.baseUrl, "/api/traces/query-with-db")
DatabaseConnectionsUrl(c) == ApiUrl(c.baseUrl, "/api/database-connections")
CreateConnectionUrl(c) == ApiUrl(c.baseUrl, "/api/database-connections")
HealthUrl(c) == ApiUrl(c.baseUrl, "/api/health")

DemoBackend == "http://localhost:8081"
DemoHealthUrl(dev) ==
  IF dev THEN Href("", "/api/demo/health") ELSE Href(DemoBackend, "/api/demo/health")
DemoQueryUrl(dev) ==
  IF dev THEN Href("", "/api/demo/query") ELSE Href(DemoBackend, "/api/demo/query")

\* text.includes(phrase), on sequences of words
Includes(text, phrase) ==
  \E i \in 1 .. (Len(text) - Len(phrase) + 1) :
    SubSeq(text, i, i + Len(phrase) - 1) = phrase

\* What a fetch of the page rejects with
PageError(isTypeError, message) ==
  [isTypeError |-> isTypeError, message |-> message]
\* TypeError: Failed to fetch
NetworkError == PageError(TRUE, <<"Failed", "to", "fetch">>)
\* TypeError: Load failed (the wording of another browser)
LoadFailed == PageError(TRUE, <<"Load", "failed">>)
PageFetchErrors == {NetworkError, LoadFailed}

Connection(id, name, type, status) ==
  [id |-> id, name |-> name, type |-> type, status |-> status]
DefaultConnection ==
  Connection("mock-data-connection", "mock_data_db@localhost", "postgresql",
             "active")
Conn1 == Connection("conn-1", "hospital_db", "postgresql", "active")
Conn2 == Connection("conn-2", "hr_db", "mysql", "inactive")

\* JSON documents the registry answers with: lists of connections, an
\* object that is no list, and null
RegistryLists == {<<>>, <<Conn1>>, <<Conn2, Conn1>>}
RegistryDocs ==
  {[t |-> "list", list |-> l] : l \in RegistryLists}
    \cup {[t |-> "object", list |-> <<>>], [t |-> "null", list |-> <<>>]}

\* loadDatabaseConnections up to its await, getDatabaseConnections up to its
\* fetch included
StartLoad ==
  /\ connectionLoading' = TRUE
  /\ loadPc' = "fetching"
  /\ loadSeen' = selectedConnectionId

\* useEffect(() => { checkBackendStatus(); checkDemoBackendStatus();
\*                   loadDatabaseConnections(); }, [])
Mount ==
  /\ ~mounted
  /\ mounted' = TRUE
  /\ healthPc' = "fetching"
  /\ demoHealthPc' = "fetching"
  /\ StartLoad
  /\ requests' = requests \cup {HealthUrl(client), DemoHealthUrl(isDevelopment),
                                DatabaseConnectionsUrl(client)}
  /\ UNCHANGED <<sdkVars, isDevelopment, testVars,
                 databaseConnections, selectedConnectionId, backendStatus,
                 demoBackendStatus, demoPrompt, registry>>

\* the Refresh button
Refresh ==
  /\ mounted
  /\ ~connectionLoading
  /\ loadPc = "idle"
  /\ StartLoad
  /\ requests' = requests \cup {DatabaseConnectionsUrl(client)}
  /\ UNCHANGED <<sdkVars, isDevelopment, mounted, testVars,
                 databaseConnections, selectedConnectionId, backendStatus,
                 demoBackendStatus, demoPrompt, registry, healthPc,
                 demoHealthPc>>

\* setBackendStatus(response.ok ? 'online' : 'offline')
HealthReply(status) ==
  /\ healthPc = "fetching"
  /\ healthPc' = "idle"
  /\ backendStatus' = IF IsOk(status) THEN "online" ELSE "offline"
  /\ UNCHANGED <<sdkVars, isDevelopment, mounted, testVars,
                 databaseConnections, selectedConnectionId, connectionLoading,
                 demoBackendStatus, demoPrompt, loadPc, loadSeen, registry,
                 demoHealthPc, requests>>

\* catch (err) { setBackendStatus('offline') }
HealthFail ==
  /\ healthPc = "fetching"
  /\ healthPc' = "idle"
  /\ backendStatus' = "offline"
  /\ UNCHANGED <<sdkVars, isDevelopment, mounted, testVars,
                 databaseConnections, selectedConnectionId, connectionLoading,
                 demoBackendStatus, demoPrompt, loadPc, loadSeen, registry,
                 demoHealthPc, requests>>

\* the button that runs checkDemoBackendStatus again
RecheckDemoHealth ==
  /\ mounted
  /\ demoHealthPc = "idle"
  /\ demoHealthPc' = "fetching"
  /\ requests' = requests \cup {DemoHealthUrl(isDevelopment)}
  /\ UNCHANGED <<sdkVars, isDevelopment, mounted, testVars,
                 databaseConnections, selectedConnectionId, connectionLoading,
                 backendStatus, demoBackendStatus, demoPrompt, loadPc, loadSeen,
                 registry, healthPc>>

DemoHealthReply(status) ==
  /\ demoHealthPc = "fetching"
  /\ demoHealthPc' = "idle"
  /\ demoBackendStatus' = IF IsOk(status) THEN "online" ELSE "offline"
  /\ UNCHANGED <<sdkVars, isDevelopment, mounted, testVars,
                 databaseConnections, selectedConnectionId, connectionLoading,
                 backendStatus, demoPrompt, loadPc, loadSeen, registry,
                 healthPc, requests>>

DemoHealthFail ==
  /\ demoHealthPc = "fetching"
  /\ demoHealthPc' = "idle"
  /\ demoBackendStatus' = "offline"
  /\ UNCHANGED <<sdkVars, isDevelopment, mounted, testVars,
                 databaseConnections, selectedConnectionId, connectionLoading,
                 backendStatus, demoPrompt, loadPc, loadSeen, registry,
                 healthPc, requests>>

PageStatuses == {200, 404, 500}

\* if (!selectedConnectionId) setSelectedConnectionId(id), the condition
\* read from the closure of the run
SelectIfNone(id) ==
  selectedConnectionId' = IF loadSeen = "" THEN id ELSE selectedConnectionId

\* finally { setConnectionLoading(false) }
LoadEnds(kind, list) ==
  /\ connectionLoading' = FALSE
  /\ loadPc' = "idle"
  /\ loadSeen' = ""
  /\ registry' = Registry(kind, list)

\* The try block of loadDatabaseConnections once getDatabaseConnections has
\* resolved with `connections`
LoadDeliver(kind, connections) ==
  /\ IF Len(connections) > 0
       THEN /\ databaseConnections' = connections
            /\ SelectIfNone(connections[1].id)
       ELSE /\ databaseConnections' = <<DefaultConnection>>
            /\ SelectIfNone(DefaultConnection.id)
  /\ backendStatus' = "online"
  /\ LoadEnds(kind, connections)

\* Variant: the catch block leaves the list as it is
LoadCatchKeepsList(kind) ==
  /\ backendStatus' = "offline"
  /\ UNCHANGED <<databaseConnections, selectedConnectionId>>
  /\ LoadEnds(kind, <<>>)

\* The catch block of loadDatabaseConnections
LoadCatch(kind) ==
  /\ backendStatus' = "offline"
  /\ databaseConnections' = <<DefaultConnection>>
  /\ SelectIfNone(DefaultConnection.id)
  /\ LoadEnds(kind, <<>>)

\* the registry answers the GET
LoadFetchReply(status) ==
  /\ loadPc = "fetching"
  /\ IF IsOk(status)
       THEN /\ loadPc' = "parsing"
            /\ UNCHANGED <<databaseConnections, selectedConnectionId,
                           backendStatus, connectionLoading, loadSeen, registry>>
       ELSE IF status = 404
         THEN LoadDeliver("404", <<>>)
         ELSE LoadCatch("error_status")
  /\ UNCHANGED <<sdkVars, isDevelopment, mounted, testVars,
                 demoBackendStatus, demoPrompt, healthPc, demoHealthPc,
                 requests>>

\* the GET fails: a TypeError whose message includes 'fetch' gives an empty
\* list, anything else is thrown on
LoadFetchFail(e) ==
  /\ loadPc = "fetching"
  /\ IF e.isTypeError /\ Includes(e.message, <<"fetch">>)
       THEN LoadDeliver("unreachable", <<>>)
       ELSE LoadCatch("unreachable")
  /\ UNCHANGED <<sdkVars, isDevelopment, mounted, testVars,
                 demoBackendStatus, demoPrompt, healthPc, demoHealthPc,
                 requests>>

\* response.json() resolves with `doc`; connections.length is undefined for
\* an object that is no list and throws for null
LoadJsonReply(doc) ==
  /\ loadPc = "parsing"
  /\ IF doc.t = "list"
       THEN LoadDeliver(IF doc.list = <<>> THEN "empty" ELSE "list", doc.list)
     ELSE IF doc.t = "object"
       THEN LoadDeliver("not_a_list", <<>>)
     ELSE LoadCatch("not_a_list")
  /\ UNCHANGED <<sdkVars, isDevelopment, mounted, testVars,
                 demoBackendStatus, demoPrompt, healthPc, demoHealthPc,
                 requests>>

\* response.json() rejects
LoadJsonFail ==
  /\ loadPc = "parsing"
  /\ LoadCatch("bad_json")
  /\ UNCHANGED <<sdkVars, isDevelopment, mounted, testVars,
                 demoBackendStatus, demoPrompt, healthPc, demoHealthPc,
                 requests>>

\* the options the dropdown offers
OfferedIds ==
  IF Len(databaseConnections) > 0
    THEN {databaseConnections[i].id : i \in 1 .. Len(databaseConnections)}
    ELSE {DefaultConnection.id}

\* onChange={(e) => setSelectedConnectionId(e.target.value)}
Select(id) ==
  /\ mounted
  /\ ~connectionLoading
  /\ id \in OfferedIds
  /\ id # selectedConnectionId
  /\ selectedConnectionId' = id
  /\ UNCHANGED <<sdkVars, isDevelopment, mounted, testVars,
                 databaseConnections, connectionLoading, backendStatus,
                 demoBackendStatus, demoPrompt, loadPc, loadSeen, registry,
                 healthPc, demoHealthPc, requests>>

(***************************************************************************)
(* The page: testDemoBackend                                               *)
(***************************************************************************)
\* text.trim(): a word " " stands for white space
RECURSIVE TrimStart(_)
TrimStart(text) ==
  IF text # <<>> /\ text[1] = " " THEN TrimStart(Tail(text)) ELSE text
RECURSIVE TrimEnd(_)
TrimEnd(text) ==
  IF text # <<>> /\ text[Len(text)] = " "
    THEN TrimEnd(SubSeq(text, 1, Len(text) - 1))
    ELSE text

\* Variant: the prompt is tested as typed
TrimNothing(text) == text

Trim(text) == TrimEnd(TrimStart(text))

PromptInputs ==
  {DefaultPrompt, <<>>, <<" ", " ">>, <<"List", "all", "employees">>}

\* word.toLowerCase(), for the words the answers are made of
LowerWord(w) ==
  CASE w = "I" -> "i"
    [] w = "What" -> "what"
    [] w = "Connection" -> "connection"
    [] w = "There" -> "there"
    [] OTHER -> w
ToLowerCase(text) == [i \in 1 .. Len(text) |-> LowerWord(text[i])]

NoDbContextIndicators ==
  { <<"i", "do", "not", "have", "access">>,
    <<"i", "cannot", "access">>,
    <<"i", "need", "to", "know">>,
    <<"please", "provide", "me", "with", "information">>,
    <<"what", "kind", "of", "data">>,
    <<"what", "database">> }
DbConnectionErrorIndicators ==
  { <<"failed", "to", "obtain", "jdbc", "connection">>,
    <<"jdbc", "connection">>,
    <<"cannot", "access">>,
    <<"database", "context", "indicates", "an", "error">>,
    <<"connection", "refused">>,
    <<"connection", "timeout">> }

\* data.response?.toLowerCase() || ''
ResponseText(data) ==
  IF IsString(data.response) THEN ToLowerCase(data.response.s) ELSE <<>>
SeemsNoDbContext(data) ==
  \E indicator \in NoDbContextIndicators : Includes(ResponseText(data), indicator)
HasDbConnectionError(data) ==
  \E indicator \in DbConnectionErrorIndicators :
    Includes(ResponseText(data), indicator)

\* score.toFixed(1), the score held in hundredths
ToFixed1(hundredths) ==
  LET tenths == (hundredths + 5) \div 10
  IN ToString(tenths \div 10) \o "." \o ToString(tenths % 10)

\* the first line of result.message on the success branch
VerdictLine(data) ==
  IF Truthy(data.hallucinationsDetected)
    THEN <<"Hallucinations", "detected!", "Confidence:",
           (IF data.confidenceScore = Undef THEN "undefined"
            ELSE ToFixed1(data.confidenceScore.n)) \o "%">>
    ELSE <<"Query", "successful!", "Confidence:",
           (IF data.confidenceScore = Undef THEN "N/A"
            ELSE ToFixed1(data.confidenceScore.n)) \o "%">>

\* Variant: an answer that matches a connection-error phrase is reported as
\* a failure
ResultTypeByPhrase(data) ==
  IF Truthy(data.hallucinationsDetected) \/ HasDbConnectionError(data)
    THEN "error" ELSE "success"

\* type: data.hallucinationsDetected ? 'error' : 'success'
ResultType(data) ==
  IF Truthy(data.hallucinationsDetected) THEN "error" ELSE "success"

\* Variant: a reply without verdict fields is taken for a failed query
DemoSucceededNeedsVerdict(data) ==
  Truthy(data.success) /\ data.confidenceScore # Undef

\* if (data.success)
DemoSucceeded(data) == Truthy(data.success)

\* The Trace and the TestResult of the branch `if (data.success)`
DemoResult(data, seen) ==
  Result(ResultType(data), TRUE,
         Trace(seen.prompt, data.response,
               OrElse(data.tokensUsed, Num(0)).n,
               OrElse(data.costUsd, Num(0)).n,
               OrElse(data.latencyMs, Num(0)).n,
               OrElse(data.provider, Str(<<"openai">>)),
               ("source" :> Str(<<"demo-backend">>))
                 @@ ("endpoint" :> Str(<<"/api/demo/query">>))
                 @@ ("databaseConnectionId" :> Str(<<seen.connectionId>>))
                 @@ ("confidenceScore" :> data.confidenceScore)
                 @@ ("hallucinationsDetected" :> data.hallucinationsDetected)
                 @@ ("supportedClaims" :> data.supportedClaims)
                 @@ ("totalClaims" :> data.totalClaims)),
         data.confidenceScore # Undef,
         VerdictLine(data)
           \o (IF HasDbConnectionError(data)
                 THEN <<"Database", "Connection", "Error:", "troubleshooting">>
               ELSE IF SeemsNoDbContext(data) /\ ~Truthy(data.databaseContext)
                 THEN <<"Warning:", "the", "backend", "may", "not", "be",
                        "querying">>
               ELSE <<>>))

\* The TestResult the catch block builds
DemoFailureResult(errorMessage, seen) ==
  Result("error", TRUE,
         Trace(seen.prompt, Str(<<"Error:">> \o errorMessage), 0, 0, 0,
               Str(<<"unknown">>),
               ("error" :> JSTrue) @@ ("errorMessage" :> Str(errorMessage))
                 @@ ("source" :> Str(<<"demo-backend">>))),
         FALSE,
         <<"Demo", "backend", "query", "failed">>)

\* Variant: the run ends without the finally block
TestEndsKeepsLoading ==
  /\ UNCHANGED loading
  /\ testPc' = "idle"
  /\ demoSeen' = NothingSeen
  /\ inFlight' = inFlight - 1

\* finally { setLoading(false) }
TestEnds ==
  /\ loading' = FALSE
  /\ testPc' = "idle"
  /\ demoSeen' = NothingSeen
  /\ inFlight' = inFlight - 1

\* The catch block of testDemoBackend, entered with an Error of that message
DemoCatch(errorMessage, data) ==
  /\ pageError' = Message(errorMessage)
  /\ result' = DemoFailureResult(errorMessage, demoSeen)
  /\ demoReply' = data
  /\ TestEnds

\* testDemoBackend up to its first return or await
TestDemoBackend ==
  /\ IF Trim(demoPrompt) = <<>>
       THEN /\ pageError' = Message(<<"Please", "enter", "a", "prompt">>)
            /\ UNCHANGED <<loading, result, testPc, demoSeen, demoReply,
                           inFlight, requests>>
     ELSE IF selectedConnectionId = ""
       THEN /\ pageError' = Message(<<"Please", "select", "a", "database",
                                      "connection">>)
            /\ UNCHANGED <<loading, result, testPc, demoSeen, demoReply,
                           inFlight, requests>>
     ELSE /\ loading' = TRUE
          /\ pageError' = NoMessage
          /\ result' = NoResult
          /\ testPc' = "demo_fetching"
          /\ demoSeen' = Seen(demoPrompt, selectedConnectionId)
          /\ demoReply' = NoData
          /\ inFlight' = inFlight + 1
          /\ requests' = requests \cup {DemoQueryUrl(isDevelopment)}
  /\ UNCHANGED <<sdkVars, isDevelopment, mounted, loadVars, healthVars,
                 selectedConnectionId, backendStatus, demoPrompt>>

\* Variant: the button stays enabled while a test runs
DemoButtonIgnoresLoading ==
  ~(Trim(demoPrompt) = <<>> \/ selectedConnectionId = "")

\* disabled={loading || !demoPrompt.trim() || !selectedConnectionId}
DemoButtonEnabled ==
  ~(loading \/ Trim(demoPrompt) = <<>> \/ selectedConnectionId = "")

\* The button "Query Demo Backend"
ClickTestDemoBackend ==
  /\ mounted
  /\ DemoButtonEnabled
  /\ TestDemoBackend

\* testDemoBackend called as a function, whatever the button's state; a
\* call that would start a second run beside the one under way is left out
InvokeTestDemoBackend ==
  /\ mounted
  /\ inFlight = 0 \/ Trim(demoPrompt) = <<>> \/ selectedConnectionId = ""
  /\ TestDemoBackend

\* the POST fails: a TypeError, which is an Error
DemoFetchFail(e) ==
  /\ testPc = "demo_fetching"
  /\ DemoCatch(e.message, NoData)
  /\ UNCHANGED <<sdkVars, isDevelopment, mounted, loadVars, healthVars,
                 selectedConnectionId, backendStatus, demoPrompt, requests>>

ServerErrorText == <<"Internal", "Server", "Error">>

\* the POST is answered; for a status that is not ok the body text is read
\* and `Demo backend error: ${status} - ${errorText}` is thrown
DemoFetchReply(status) ==
  /\ testPc = "demo_fetching"
  /\ IF IsOk(status)
       THEN /\ testPc' = "demo_parsing"
            /\ UNCHANGED <<loading, result, pageError, demoSeen, demoReply,
                           inFlight>>
       ELSE DemoCatch(<<"Demo", "backend", "error:", ToString(status), "-">>
                        \o ServerErrorText, NoData)
  /\ UNCHANGED <<sdkVars, isDevelopment, mounted, loadVars, healthVars,
                 selectedConnectionId, backendStatus, demoPrompt, requests>>

\* response.json() rejects
DemoJsonFail ==
  /\ testPc = "demo_parsing"
  /\ DemoCatch(<<"Unexpected", "token">>, NoData)
  /\ UNCHANGED <<sdkVars, isDevelopment, mounted, loadVars, healthVars,
                 selectedConnectionId, backendStatus, demoPrompt, requests>>

\* response.json() resolves with `data`: the rest of the try block
DemoJsonReply(data) ==
  /\ testPc = "demo_parsing"
  /\ IF data.t = "null"
       THEN DemoCatch(<<"Cannot", "read", "properties", "of", "null">>, data)
     ELSE IF DemoSucceeded(data)
       THEN /\ result' = DemoResult(data, demoSeen)
            /\ demoReply' = data
            /\ TestEnds
            /\ UNCHANGED pageError
     ELSE DemoCatch(IF Truthy(data.error) THEN data.error.s
                    ELSE <<"Query", "failed">>, data)
  /\ UNCHANGED <<sdkVars, isDevelopment, mounted, loadVars, healthVars,
                 selectedConnectionId, backendStatus, demoPrompt, requests>>

\* onChange={(e) => setDemoPrompt(e.target.value)} and the example buttons
SetDemoPrompt(p) ==
  /\ mounted
  /\ p # demoPrompt
  /\ demoPrompt' = p
  /\ UNCHANGED <<sdkVars, isDevelopment, mounted, loadVars, healthVars,
                 testVars, selectedConnectionId, backendStatus, requests>>

\* Answers of the model: one that matches no phrase, one that matches a
\* phrase of both lists, one of the first list only, one of the second only
PlainAnswer == <<"There", "are", "3", "hospitals">>
NoAccessAnswer == <<"I", "cannot", "access", "the", "database">>
AskingAnswer == <<"What", "database", "do", "you", "mean?">>
RefusedAnswer == <<"Connection", "refused">>
AnswerTexts == {PlainAnswer, NoAccessAnswer, AskingAnswer, RefusedAnswer}

SomeMetrics == Metrics(Num(42), Num(84), Num(1200), Str(<<"gemini">>))
Faithful == Verdict(Num(8749), JSFalse, Num(3), Num(3))
Hallucinated == Verdict(Num(4020), JSTrue, Num(1), Num(4))
FlaggedOnly == Verdict(Undef, JSTrue, Undef, Undef)

DemoReplies ==
  {DemoData(JSTrue, Str(a), SomeMetrics, NoVerdict, Undef, Undef) :
     a \in AnswerTexts}
    \cup {DemoData(JSTrue, Str(a), SomeMetrics, Faithful, Str(<<"rows">>), Undef) :
            a \in AnswerTexts}
    \cup {DemoData(JSTrue, Str(a), NoMetrics, Hallucinated, Undef, Undef) :
            a \in {PlainAnswer, AskingAnswer}}
    \cup { DemoData(JSTrue, Undef, NoMetrics, NoVerdict, Undef, Undef),
           DemoData(JSTrue, Str(RefusedAnswer), SomeMetrics, FlaggedOnly, Undef,
                    Undef),
           DemoData(JSFalse, Undef, NoMetrics, NoVerdict, Undef,
                    Str(<<"Model", "overloaded">>)),
           DemoData(JSFalse, Str(PlainAnswer), NoMetrics, Hallucinated, Undef,
                    Undef),
           DemoData(Undef, Undef, NoMetrics, NoVerdict, Undef, Undef),
           NullData }

NextPage ==
  \/ Mount
  \/ Refresh
  \/ \E st \in PageStatuses : HealthReply(st)
  \/ HealthFail
  \/ RecheckDemoHealth
  \/ \E st \in PageStatuses : DemoHealthReply(st)
  \/ DemoHealthFail
  \/ \E st \in PageStatuses : LoadFetchReply(st)
  \/ \E e \in PageFetchErrors : LoadFetchFail(e)
  \/ \E doc \in RegistryDocs : LoadJsonReply(doc)
  \/ LoadJsonFail
  \/ \E id \in {"conn-1", "conn-2", "mock-data-connection"} : Select(id)

\* the page with the module-level client of either build: the mount effect,
\* the health checks, the connection list and the dropdown
SpecPage == InitWith({DevConfig, ProdConfig}) /\ [][NextPage]_vars

NextMount ==
  \/ Mount
  \/ \E st \in PageStatuses : HealthReply(st)
  \/ HealthFail
  \/ \E st \in PageStatuses : DemoHealthReply(st)
  \/ DemoHealthFail
  \/ \E st \in PageStatuses : LoadFetchReply(st)
  \/ \E e \in PageFetchErrors : LoadFetchFail(e)
  \/ \E doc \in RegistryDocs : LoadJsonReply(doc)
  \/ LoadJsonFail

\* the mount effect alone: the three requests it starts and their settling
\* in every order
SpecMount == InitWith({DevConfig, ProdConfig}) /\ [][NextMount]_vars

(***************************************************************************)
(* The page: testMockAPI, which calls lighthouse.trackFetch                *)
(***************************************************************************)
MockOptions == Opts(Get_, NoBody)
MockMetadata ==
  Meta(("prompt" :> Str(Lit(<<"G", "e", "t", " ", "p", "o", "s", "t", " ",
                              "d", "a", "t", "a">>)))
         @@ ("provider" :> Str(Lit(<<"c", "u", "s", "t", "o", "m">>)))
         @@ ("model" :> Str(Lit(<<"j", "s", "o", "n", "-", "a", "p", "i">>))))

\* testMockAPI up to its await, trackFetch up to its fetch included
TestMockAPI ==
  /\ loading' = TRUE
  /\ pageError' = NoMessage
  /\ result' = NoResult
  /\ testPc' = "mock"
  /\ demoReply' = NoData
  /\ inFlight' = inFlight + 1
  /\ StartCall(MockOptions, MockMetadata)
  /\ UNCHANGED <<isDevelopment, mounted, loadVars, healthVars,
                 selectedConnectionId, backendStatus, demoPrompt, demoSeen,
                 requests>>

\* disabled={loading}
MockButtonEnabled == ~loading

\* The button "Test Mock API"
ClickTestMockAPI ==
  /\ mounted
  /\ MockButtonEnabled
  /\ TestMockAPI

\* The catch block of testMockAPI: `thrown` is the caught value, which has
\* the properties error and trace only when it is a bundle of trackFetch
MockCatch(thrown) ==
  /\ pageError' =
       Message(IF thrown.bundle /\ thrown.error.isError
                    /\ thrown.error.message # <<>>
                 THEN thrown.error.message
                 ELSE <<"Failed", "to", "fetch">>)
  /\ result' =
       IF thrown.bundle
         THEN Result("error", TRUE, thrown.trace, FALSE,
                     <<"Error", "occurred,", "but", "trace", "was", "still",
                       "sent">>)
         ELSE result
  /\ UNCHANGED demoReply
  /\ TestEnds
  /\ EndCall

\* trackFetch has thrown
MockThrown ==
  /\ testPc = "mock"
  /\ pc = "thrown"
  /\ MockCatch(settled)
  /\ UNCHANGED <<isDevelopment, mounted, loadVars, healthVars,
                 selectedConnectionId, backendStatus, demoPrompt, requests>>

\* trackFetch has returned and response.json() resolves
MockJsonReply ==
  /\ testPc = "mock"
  /\ pc = "returned"
  /\ ~response.bodyUsed
  /\ result' = Result("success", TRUE, settled.trace, FALSE,
                      <<"Trace", "sent", "to", "Lighthouse!">>)
  /\ UNCHANGED <<pageError, demoReply>>
  /\ TestEnds
  /\ EndCall
  /\ UNCHANGED <<isDevelopment, mounted, loadVars, healthVars,
                 selectedConnectionId, backendStatus, demoPrompt, requests>>

\* trackFetch has returned and response.json() rejects: the body is no JSON
MockJsonFail ==
  /\ testPc = "mock"
  /\ pc = "returned"
  /\ MockCatch(Settled("throw", FALSE, Err("call", TRUE, Rep("S", 11)), NoTrace))
  /\ UNCHANGED <<isDevelopment, mounted, loadVars, healthVars,
                 selectedConnectionId, backendStatus, demoPrompt, requests>>

\* The two test buttons.  Of the rest of the page the tests read
\* selectedConnectionId and demoPrompt only, so the mount run of
\* loadDatabaseConnections, the dropdown and the prompt field are all of it
\* that this specification follows.
NextTests ==
  \/ Mount
  \/ \E st \in PageStatuses : LoadFetchReply(st)
  \/ \E doc \in RegistryDocs : LoadJsonReply(doc)
  \/ \E id \in {"conn-1", "conn-2", "mock-data-connection"} : Select(id)
  \/ \E p \in PromptInputs : SetDemoPrompt(p)
  \/ ClickTestDemoBackend
  \/ \E e \in PageFetchErrors : DemoFetchFail(e)
  \/ \E st \in PageStatuses : DemoFetchReply(st)
  \/ DemoJsonFail
  \/ \E data \in DemoReplies : DemoJsonReply(data)
  \/ ClickTestMockAPI
  \/ \E st \in Statuses, b \in ResponseTexts, d \in Delays : FetchResolve(st, b, d)
  \/ \E e \in FetchErrors, d \in Delays : FetchReject(e, d)
  \/ \E d \in Delays : ReadResolve(d)
  \/ \E e \in FetchErrors, d \in Delays : ReadReject(e, d)
  \/ PostOk
  \/ PostNotOk
  \/ PostNetworkError
  \/ JsonOk
  \/ JsonFail
  \/ MockThrown
  \/ MockJsonReply
  \/ MockJsonFail

SpecTests == InitWith({DevConfig, ProdConfig}) /\ [][NextTests]_vars

NextHandler ==
  \/ Mount
  \/ \E st \in PageStatuses : LoadFetchReply(st)
  \/ \E doc \in RegistryDocs : LoadJsonReply(doc)
  \/ \E id \in {"conn-1", "conn-2", "mock-data-connection"} : Select(id)
  \/ \E p \in PromptInputs : SetDemoPrompt(p)
  \/ InvokeTestDemoBackend
  \/ \E e \in PageFetchErrors : DemoFetchFail(e)
  \/ \E st \in PageStatuses : DemoFetchReply(st)
  \/ DemoJsonFail
  \/ \E data \in DemoReplies : DemoJsonReply(data)

\* testDemoBackend as a function of the component's state: called in every
\* state of the prompt and the selection, the states in which its button is
\* disabled included
SpecHandler == InitWith({DevConfig, ProdConfig}) /\ [][NextHandler]_vars

\* The steps by which the network call of a test run settles and the
\* handler resumes after its await
TestSettles ==
  \/ \E e \in PageFetchErrors : DemoFetchFail(e)
  \/ \E st \in PageStatuses : DemoFetchReply(st)
  \/ DemoJsonFail
  \/ \E data \in DemoReplies : DemoJsonReply(data)
  \/ \E st \in Statuses, b \in ResponseTexts, d \in Delays : FetchResolve(st, b, d)
  \/ \E e \in FetchErrors, d \in Delays : FetchReject(e, d)
  \/ \E d \in Delays : ReadResolve(d)
  \/ \E e \in FetchErrors, d \in Delays : ReadReject(e, d)
  \/ MockThrown
  \/ MockJsonReply
  \/ MockJsonFail

\* The test buttons of the development build with every pending request
\* settling in the end, one way or another, and the event loop resuming the
\* handler that awaits it
SpecTestsFair ==
  InitWith({DevConfig}) /\ [][NextTests]_vars /\ WF_vars(TestSettles)

(***************************************************************************)
(* Properties of Lighthouse.trackFetch (browser SDK)                       *)
(***************************************************************************)
HasSettled == pc \in {"returned", "thrown"}
FetchFailed == fetchError # NoError
FetchResolved == response # NoResponse
Min(a, b) == IF a <= b THEN a ELSE b
CallerKeys == IF args.metadata.present THEN DOMAIN args.metadata.m ELSE {}

\* C1: every call attempt, however the wrapped fetch ends and whatever the
\* options and metadata are, has built exactly one Trace and has invoked
\* sendTrace exactly once with it by the time trackFetch settles; no attempt
\* ends with zero or with two traces.
C1_ExactlyOneTrace ==
  /\ Len(built) <= 1
  /\ sendCalls <= 1
  /\ HasSettled => /\ Len(built) = 1
                   /\ sendCalls = 1
                   /\ settled.trace = built[1]

\* C2: what trackFetch returns or throws is the same whether the forwarding
\* succeeds, rejects or never settles: trackFetch settles in the very step
\* that calls sendTrace, without waiting for it; once settled, no step of the
\* forwarding changes the outcome; a rejected forwarding is logged and nothing
\* else.
C2_ForwardingNeverAltersResult ==
  [][ /\ (sendCalls' > sendCalls) =>
           (pc' \in {"returned", "thrown"} /\ fwd' \in {"posting", "skipped"})
      /\ (HasSettled /\ pc' # "idle") =>
           (pc' = pc /\ settled' = settled /\ built' = built)
      /\ (fwd' # fwd /\ fwd \in {"posting", "parsing"} /\ pc' # "idle") =>
           /\ settled' = settled
           /\ pc' = pc
           /\ (fwd' \notin {"parsing", "resolved"}) =>
                (fwd' = "logged" /\ Len(warnings') = Len(warnings) + 1)
    ]_vars

\* C2 witness: trackFetch has returned and the forwarding it started was
\* rejected afterwards and logged.
C2_Witness ==
  /\ settled.kind = "return"
  /\ fwd = "logged"
  /\ warnings # <<>>

\* C3: when the wrapped fetch fails, trackFetch throws a value that carries
\* both the original error and the Trace built for the failed attempt.
C3_FailureCarriesErrorAndTrace ==
  (FetchFailed /\ HasSettled) =>
    /\ settled.kind = "throw"
    /\ settled.bundle
    /\ settled.error = fetchError
    /\ Len(built) = 1
    /\ settled.trace = built[1]

\* C4 as stated: the failure Trace's metadata holds url, method and the
\* caller-supplied metadata keys, together with error: true.
C4_FailureMetadataHasCallShape ==
  (settled.kind = "throw" /\ settled.bundle) =>
    LET md == settled.trace.metadata
    IN /\ {"url", "method", "error"} \cup CallerKeys \subseteq DOMAIN md
       /\ md["error"] = JSTrue

\* C4 amended: the failure Trace's metadata is exactly { error: true,
\* errorMessage }, errorMessage being the message of the error (or 'Unknown
\* error' for a thrown value that is no Error); it holds neither url nor
\* method nor any caller-supplied key.
C4_FailureMetadataIsErrorOnly ==
  (settled.kind = "throw" /\ settled.bundle) =>
    LET md == settled.trace.metadata
    IN /\ DOMAIN md = {"error", "errorMessage"}
       /\ md["error"] = JSTrue
       /\ IsString(md["errorMessage"])
       /\ md["errorMessage"].s =
            (IF fetchError.isError THEN fetchError.message ELSE UnknownError)

\* C4 witness: a failure Trace was thrown for a call whose caller supplied
\* metadata keys.
C4_Witness ==
  /\ settled.kind = "throw"
  /\ settled.bundle
  /\ "model" \in CallerKeys

\* C5 as stated: a wrapped call that completes with a non-2xx status makes
\* trackFetch signal a failure with the Trace attached.
C5_NonOkStatusIsTerminal ==
  (HasSettled /\ FetchResolved /\ ~FetchFailed /\ ~IsOk(response.status)) =>
    (settled.kind = "throw" /\ settled.bundle)

\* C5 amended: a non-2xx status is no failure for trackFetch: for a response
\* whose body could be read it never throws an {error, trace} bundle,
\* whatever the status, and when it returns it hands back that very response
\* with the success Trace it built (response text kept, tokens counted, the
\* status recorded as statusCode unless the caller supplied that key).
C5_NonOkStatusReturnsNormally ==
  (HasSettled /\ FetchResolved /\ ~FetchFailed /\ ~IsOk(response.status)) =>
    /\ ~settled.bundle
    /\ settled.kind = "return" =>
         /\ settled.trace = built[1]
         /\ settled.trace.response = Substring(response.body, MaxResponseLen)
         /\ 4 * settled.trace.tokensUsed >=
              TextLen(prompt.s) + TextLen(response.body)
         /\ "statusCode" \notin CallerKeys =>
              settled.trace.metadata["statusCode"] = Num(response.status)

\* C5 witness: trackFetch has returned normally a response of status 404.
C5_Witness ==
  /\ settled.kind = "return"
  /\ response.status = 404

\* C6: every Trace built has a prompt field of length min(len(prompt), 10000)
\* and a response field of length at most 50000; on success the response
\* field has exactly min(len(responseText), 50000) units; each field is a
\* prefix of the original text.
C6_TruncatedFields ==
  \A i \in 1 .. Len(built) :
    /\ TextLen(built[i].prompt) = Min(TextLen(prompt.s), MaxPromptLen)
    /\ IsPrefix(built[i].prompt, prompt.s)
    /\ TextLen(built[i].response) <= MaxResponseLen
    /\ settled.kind = "return" =>
         /\ TextLen(built[i].response) =
              Min(TextLen(response.body), MaxResponseLen)
         /\ IsPrefix(built[i].response, response.body)

\* The effective prompt as C7 states it
ClaimedPrompt(options, metadata) ==
  IF metadata.present /\ "prompt" \in DOMAIN metadata.m
    THEN ToStr(metadata.m["prompt"])
  ELSE IF /\ options.present
          /\ options.body.kind = "string"
          /\ options.body.valid
          /\ options.body.doc.t = "object"
          /\ options.body.doc.hasPrompt
          /\ IsString(options.body.doc.prompt)
    THEN options.body.doc.prompt.s
  ELSE EmptyText

\* C7: for every options and metadata the effective prompt is a text string:
\* metadata.prompt when it is present, otherwise the prompt field of the
\* parsed request body, otherwise the empty string.
C7_PromptIsText ==
  pc # "idle" =>
    /\ IsString(prompt)
    /\ prompt.s = ClaimedPrompt(args.options, args.metadata)

\* C8: on the success path of either SDK the instrumentation reads the text
\* from a duplicate of the response: the Trace holds that text, the response
\* handed back is unconsumed until the caller reads it, and the caller's one
\* read of the body succeeds.
C8_ReturnedResponseUnconsumed ==
  /\ (settled.kind = "return" /\ callerRead = "none") => ~response.bodyUsed
  /\ callerRead # "failed"
  /\ settled.kind = "return" =>
       /\ Len(built) = 1
       /\ built[1].response = Substring(response.body, MaxResponseLen)

\* C8 witness: the caller has read the body of the returned response, whose
\* text the Trace holds as well.
C8_Witness ==
  /\ settled.kind = "return"
  /\ callerRead = "read"
  /\ built[1].response # EmptyText

\* C9: on the success path trace.metadata holds url, method (default 'GET')
\* and statusCode merged with every caller-supplied key, and on a key both
\* sides supply the caller's value is the one stored.
C9_MetadataMerge ==
  settled.kind = "return" =>
    LET md == settled.trace.metadata
        method == IF args.options.present /\ Truthy(args.options.method)
                    THEN args.options.method
                    ELSE Str(Lit(<<"G", "E", "T">>))
    IN /\ DOMAIN md = {"url", "method", "statusCode"} \cup CallerKeys
       /\ \A k \in CallerKeys : md[k] = args.metadata.m[k]
       /\ "url" \notin CallerKeys => md["url"] = args.url
       /\ "method" \notin CallerKeys => md["method"] = method
       /\ "statusCode" \notin CallerKeys =>
            md["statusCode"] = Num(response.status)

\* C9 witness: a success Trace for a call whose caller supplied its own url
\* and statusCode keys.
C9_Witness ==
  /\ settled.kind = "return"
  /\ {"url", "statusCode"} \subseteq CallerKeys

\* C10: on the success path tokensUsed is ceil((len(prompt) +
\* len(responseText)) / 4) on the untruncated texts, and costUsd is
\* non-negative and non-decreasing in each of the two lengths: no shorter
\* prompt or response costs more, no longer one costs less.
C10_TokensAndCost ==
  settled.kind = "return" =>
    LET total == TextLen(prompt.s) + TextLen(response.body)
        tr == settled.trace
    IN /\ 4 * tr.tokensUsed >= total
       /\ 4 * (tr.tokensUsed - 1) < total
       /\ tr.costUsd >= 0
       /\ \A r \in ResponseTexts :
            /\ TextLen(r) <= TextLen(response.body) =>
                 CostUsd(TokensUsed(prompt.s, r)) <= tr.costUsd
            /\ TextLen(r) >= TextLen(response.body) =>
                 CostUsd(TokensUsed(prompt.s, r)) >= tr.costUsd
       /\ \A m \in MetadataInputs :
            LET p == ResolvePrompt(NoOptions, m).s
            IN /\ TextLen(p) <= TextLen(prompt.s) =>
                    CostUsd(TokensUsed(p, response.body)) <= tr.costUsd
               /\ TextLen(p) >= TextLen(prompt.s) =>
                    CostUsd(TokensUsed(p, response.body)) >= tr.costUsd

\* C10 witness: a success Trace whose prompt is longer than the prompt field
\* keeps and whose total length is no multiple of 4.
C10_Witness ==
  /\ settled.kind = "return"
  /\ TextLen(prompt.s) > MaxPromptLen
  /\ (TextLen(prompt.s) + TextLen(response.body)) % 4 # 0

\* C11: the Trace of the failure path of the browser trackFetch has
\* tokensUsed = 0 and costUsd = 0; its response is the text 'Error: '
\* followed by the message of the error ('Unknown error' for a thrown value
\* that is no Error), never the thrown object; its latencyMs is the time
\* that passed since the start timestamp taken before the call.
C11_FailureTraceFields ==
  (settled.kind = "throw" /\ settled.bundle) =>
    LET tr == settled.trace
        message == IF fetchError.isError THEN fetchError.message
                   ELSE Lit(<<"U", "n", "k", "n", "o", "w", "n", " ",
                              "e", "r", "r", "o", "r">>)
    IN /\ tr.tokensUsed = 0
       /\ tr.costUsd = 0
       /\ tr.response =
            Concat(Lit(<<"E", "r", "r", "o", "r", ":", " ">>), message)
       /\ tr.latencyMs = elapsed

\* C11 witness: a failure Trace for a rejection that took time and a call
\* whose prompt is not empty.
C11_Witness ==
  /\ settled.kind = "throw"
  /\ settled.bundle
  /\ fetchError = FailedToFetch
  /\ elapsed > 0
  /\ settled.trace.prompt # EmptyText

\* C13: in every Trace the browser trackFetch builds, on the success path
\* and on the failure path, provider is the caller's metadata.provider when
\* that is given and not empty, and 'openai' otherwise; it is never empty
\* and never 'unknown'.
C13_ProviderDefault ==
  \A i \in 1 .. Len(built) :
    LET given == /\ "provider" \in CallerKeys
                 /\ IsString(args.metadata.m["provider"])
                 /\ args.metadata.m["provider"].s # EmptyText
    IN /\ given => built[i].provider = args.metadata.m["provider"]
       /\ ~given => built[i].provider = Str(Lit(<<"o", "p", "e", "n", "a", "i">>))
       /\ built[i].provider # Str(EmptyText)

\* C13 witness: a failure Trace for a caller that gave an empty provider.
C13_Witness ==
  /\ settled.kind = "throw"
  /\ Len(built) = 1
  /\ "provider" \in CallerKeys
  /\ args.metadata.m["provider"] = Str(EmptyText)
  /\ built[1].provider = OpenAI

\* C19: in the Node SDK a failure of the forwarding never alters what
\* trackFetch delivers for a call with a text prompt: when the wrapped fetch
\* resolved and its body was read, trackFetch returns the response; when
\* the wrapped fetch (or the body read) rejected, trackFetch throws that
\* original error.
C19_NodeForwardingNeverAltersResult ==
  (HasSettled /\ IsString(prompt)) =>
    /\ (FetchResolved /\ ~FetchFailed) => settled.kind = "return"
    /\ FetchFailed => (settled.kind = "throw" /\ settled.error = fetchError)

\* C20: in the Node SDK every call attempt builds exactly one Trace and
\* invokes sendTrace exactly once, whatever the outcome of the wrapped fetch
\* and of sendTrace.
C20_NodeExactlyOneTrace ==
  /\ Len(built) <= 1
  /\ sendCalls <= 1
  /\ HasSettled => (Len(built) = 1 /\ sendCalls = 1)

\* C12: an invocation of sendTrace on an enabled client issues exactly one
\* POST, to the configured endpoint, with the API key in its header and the
\* Trace it was given as JSON body (a disabled client issues none); a reply
\* with a status other than 2xx makes the invocation reject, which is logged;
\* no step other than an invocation of sendTrace issues a POST, so no Trace
\* is posted a second time, and a forwarding that has ended stays ended.
C12_OnePostNoRetry ==
  [][ /\ (sendCalls' > sendCalls) =>
           /\ sendCalls' = sendCalls + 1
           /\ IF enabled
                THEN /\ Len(posts') = Len(posts) + 1
                     /\ LET req == posts'[Len(posts')]
                            tr == built'[Len(built')]
                        IN /\ req.url = client.endpoint
                           /\ req.method = "POST"
                           /\ req.headers.apiKey = client.apiKey
                           /\ req.headers.contentType = "application/json"
                           /\ \A f \in {"prompt", "response", "tokensUsed",
                                        "costUsd", "latencyMs", "provider"} :
                                req.body[f] = tr[f]
                           /\ \A k \in DOMAIN tr.metadata :
                                IF tr.metadata[k] = Undef
                                  THEN k \notin DOMAIN req.body.metadata
                                  ELSE /\ k \in DOMAIN req.body.metadata
                                       /\ req.body.metadata[k] = tr.metadata[k]
                           /\ DOMAIN req.body.metadata \subseteq DOMAIN tr.metadata
                ELSE posts' = posts
      /\ (posts' # posts /\ pc' # "idle") => sendCalls' > sendCalls
      /\ PostNotOk =>
           /\ fwd' = "logged"
           /\ warnings' = Append(warnings, "Lighthouse API error")
      /\ (fwd \in {"logged", "resolved", "skipped"} /\ pc' # "idle") =>
           fwd' = fwd
    ]_vars

\* C12 witness: the one POST of a call was answered with a status other
\* than 2xx, the rejection was logged, and the request went to the endpoint
\* of the development config with a body that left out a property whose
\* value was undefined.
C12_Witness ==
  /\ fwd = "logged"
  /\ warnings = <<"Lighthouse API error">>
  /\ Len(posts) = 1
  /\ posts[1].url = "/api/sdk/traces"
  /\ posts[1].headers.apiKey = ApiKey
  /\ "method" \in DOMAIN built[1].metadata
  /\ "method" \notin DOMAIN posts[1].body.metadata

(***************************************************************************)
(* Properties of the page                                                  *)
(***************************************************************************)
\* C14: once a run of loadDatabaseConnections has ended, databaseConnections
\* is not empty and selectedConnectionId is not empty; when the registry
\* answered that run with an empty list, with 404, with another error status
\* or not at all, the list is exactly the one default connection
\* 'mock-data-connection' with status 'active'.
C14_ConnectionsAfterLoad ==
  registry.kind # "none" =>
    /\ Len(databaseConnections) > 0
    /\ selectedConnectionId # ""
    /\ registry.kind \in {"empty", "404", "error_status", "unreachable"} =>
         /\ Len(databaseConnections) = 1
         /\ databaseConnections[1].id = "mock-data-connection"
         /\ databaseConnections[1].status = "active"

\* C14 witness: the registry answered the run with an error status other
\* than 404 and the page shows the default connection, selected.
C14_Witness ==
  /\ registry.kind = "error_status"
  /\ loadPc = "idle"
  /\ databaseConnections = <<DefaultConnection>>
  /\ selectedConnectionId = "mock-data-connection"

\* C18: with the client of the development build (constructed with
\* baseUrl = '') queryWithDatabase, getDatabaseConnections,
\* createDatabaseConnection and checkBackendStatus use relative URLs
\* ('/api/...'): every URL the mounted page has requested and every URL
\* these four would request has an empty base.
C18_DevClientUsesRelativeUrls ==
  (isDevelopment /\ mounted) =>
    /\ \A u \in requests : u.base = ""
    /\ QueryWithDbUrl(client).base = ""
    /\ DatabaseConnectionsUrl(client).base = ""
    /\ CreateConnectionUrl(client).base = ""
    /\ HealthUrl(client).base = ""

\* A run of testDemoBackend has ended and had been answered with `demoReply`
DemoAnswered == testPc = "idle" /\ demoReply.t = "object"

\* C15: when the query endpoint answers success = true without verdict
\* fields, testDemoBackend ends with error = null and a result of type
\* 'success' whose trace carries the answer text and the tokens, cost and
\* latency of the reply (0 for one left out); the verdict is unavailable:
\* queryResult is undefined and the confidence shown is 'N/A'.
C15_SuccessWithoutVerdict ==
  (/\ DemoAnswered
   /\ demoReply.success = JSTrue
   /\ demoReply.confidenceScore = Undef
   /\ demoReply.hallucinationsDetected = Undef) =>
    /\ pageError = NoMessage
    /\ result.set
    /\ result.type = "success"
    /\ result.hasTrace
    /\ result.trace.response = demoReply.response
    /\ \A f \in {"tokensUsed", "costUsd", "latencyMs"} :
         result.trace[f] = (IF demoReply[f] = Undef THEN 0 ELSE demoReply[f].n)
    /\ ~result.hasQueryResult
    /\ SubSeq(result.message, 1, 4) =
         <<"Query", "successful!", "Confidence:", "N/A%">>
    /\ ~loading

\* C15 witness: a run answered with success = true, an answer text and
\* metrics but no verdict fields has ended with a result of type 'success'.
C15_Witness ==
  /\ DemoAnswered
  /\ demoReply = DemoData(JSTrue, Str(PlainAnswer), SomeMetrics, NoVerdict,
                          Undef, Undef)
  /\ result.type = "success"
  /\ result.trace.tokensUsed = 42

\* C16: the phrase classification never changes whether a run of
\* testDemoBackend counts as success or failure: for a reply with
\* data.success the result type is 'error' when data.hallucinationsDetected
\* and 'success' otherwise and error stays null, for any other reply the
\* type is 'error' and error is set, whichever phrases the answer matches;
\* the classification only appends to result.message, whose first line
\* depends on the verdict fields alone.
C16_ClassificationOnlyAppends ==
  DemoAnswered =>
    LET flagged == demoReply.hallucinationsDetected = JSTrue
    IN IF demoReply.success = JSTrue
         THEN /\ result.type = (IF flagged THEN "error" ELSE "success")
              /\ pageError = NoMessage
              /\ Len(result.message) >= 4
              /\ result.message[1] =
                   (IF flagged THEN "Hallucinations" ELSE "Query")
              /\ result.message[3] = "Confidence:"
         ELSE /\ result.type = "error"
              /\ pageError.set

\* C16 witness: an answer that matches a phrase of both lists, in a reply
\* with success = true and no hallucination: the result is of type
\* 'success' and its message has the connection-error note appended.
C16_Witness ==
  /\ DemoAnswered
  /\ demoReply.success = JSTrue
  /\ demoReply.hallucinationsDetected = JSFalse
  /\ SeemsNoDbContext(demoReply)
  /\ HasDbConnectionError(demoReply)
  /\ result.type = "success"
  /\ Len(result.message) > 4

\* C17: whenever a request issued by testMockAPI or testDemoBackend ends in
\* a failure the user sees (error is set), result is set as well and
\* carries a Trace: no failed run leaves error set and result null.
C17_FailureShowsTrace ==
  pageError.set => (result.set /\ result.hasTrace)

\* C21: on the success path and on the failure path of the browser
\* trackFetch the forwarding of the Trace has been started (sendTrace called
\* and, on an enabled client, its POST issued) by the time the result or the
\* failure of the call can be observed: no settled call is without a started
\* forwarding.
C21_ForwardingStartedBeforeOutcome ==
  HasSettled =>
    /\ sendCalls >= 1
    /\ fwd # "none"
    /\ enabled => Len(posts) >= 1

\* C22: a client constructed with enabled = false never issues a request to
\* the trace endpoint and never has a forwarding to log, while trackFetch
\* settles as on an enabled client: for a text prompt with exactly one Trace
\* built and handed to sendTrace, returned with the response when the fetch
\* and the body read went through and thrown bundled with the original
\* error otherwise; for any other prompt with a TypeError and no Trace.  The
\* client is enabled for every value of config.enabled other than false.
C22_DisabledNeverPosts ==
  /\ \A c \in {"absent", "true", "false", "null", "zero", "empty"} :
       EnabledOf(c) = (c \notin {"false"})
  /\ ~enabled =>
       /\ posts = <<>>
       /\ warnings = <<>>
       /\ fwd \in {"none", "skipped"}
  /\ (HasSettled /\ IsString(prompt)) =>
       /\ Len(built) = 1
       /\ sendCalls = 1
       /\ settled.trace = built[1]
       /\ IF FetchFailed
            THEN /\ settled.kind = "throw"
                 /\ settled.bundle
                 /\ settled.error = fetchError
            ELSE settled.kind = "return"
  /\ (HasSettled /\ ~IsString(prompt)) =>
       /\ settled.kind = "throw"
       /\ ~settled.bundle
       /\ built = <<>>
       /\ sendCalls = 0

\* C22 witness: on a disabled client trackFetch has thrown the bundle of the
\* error and the Trace it built, sendTrace was called and nothing was posted.
C22_Witness ==
  /\ ~enabled
  /\ settled.kind = "throw"
  /\ settled.bundle
  /\ sendCalls = 1
  /\ fwd = "skipped"
  /\ posts = <<>>

\* C23: no field of a forwarded Trace carries the prompt text at a length
\* above 10,000 units: neither the prompt field nor any entry of the
\* metadata map of a posted body is a copy of the prompt longer than that.
C23_NoLongPromptForwarded ==
  \A i \in 1 .. Len(posts) :
    LET body == posts[i].body
    IN /\ TextLen(body.prompt) <= MaxPromptLen
       /\ \A k \in DOMAIN body.metadata :
            (/\ IsString(body.metadata[k])
             /\ IsString(prompt)
             /\ body.metadata[k].s = prompt.s) =>
              TextLen(body.metadata[k].s) <= MaxPromptLen

\* C24: whenever no loadDatabaseConnections run is under way and at least
\* one has completed, selectedConnectionId is the id of one of the entries
\* of databaseConnections.
C24_SelectionIsListed ==
  (loadPc = "idle" /\ registry.kind # "none") =>
    \E i \in 1 .. Len(databaseConnections) :
      databaseConnections[i].id = selectedConnectionId

\* C25: a loadDatabaseConnections run that completes after its registry
\* request failed at the network level leaves backendStatus 'offline'.
C25_NetworkFailureMeansOffline ==
  [][(/\ loadPc = "fetching"
      /\ loadPc' = "idle"
      /\ registry'.kind = "unreachable") => backendStatus' = "offline"]_vars

\* C26: of checkBackendStatus and loadDatabaseConnections started by the
\* mount effect, the one that settles second leaves backendStatus at the
\* value the first one wrote, so the value after both does not depend on
\* the order in which they settled.
C26_StatusIndependentOfOrder ==
  [][/\ (healthPc = "fetching" /\ healthPc' = "idle" /\ loadPc = "idle")
          => backendStatus' = backendStatus
     /\ (loadPc # "idle" /\ loadPc' = "idle" /\ healthPc = "idle")
          => backendStatus' = backendStatus]_vars

\* C27: a run of testMockAPI or testDemoBackend that has set loading to
\* true sets it back to false once its network call has settled, whatever
\* the outcome, and loading is not true when no run is under way.
C27_LoadingIsReset ==
  /\ [](inFlight = 0 => ~loading)
  /\ loading ~> ~loading

\* C27 witness: a run has failed and ended, the error and the failure
\* result are on the page and loading is false again.
C27_Witness ==
  /\ inFlight = 0
  /\ ~loading
  /\ result.type = "error"
  /\ pageError # NoMessage

\* C28: at most one test run is under way at any time; while loading is
\* true both test buttons are disabled; and result and error change only in
\* the step that starts the one run or in the step that ends it, so no
\* older run is left to overwrite them.
C28_OneTestAtATime ==
  /\ [](/\ inFlight <= 1
        /\ loading <=> (inFlight = 1)
        /\ loading => (~MockButtonEnabled /\ ~DemoButtonEnabled))
  /\ [][(result' # result \/ pageError' # pageError) =>
          \/ inFlight = 0 /\ inFlight' = 1
          \/ inFlight = 1 /\ inFlight' = 0]_vars

\* C28 witness: a demo query is awaiting its reply with a prompt and a
\* connection that would otherwise enable the button.
C28_Witness ==
  /\ inFlight = 1
  /\ loading
  /\ testPc = "demo_parsing"
  /\ Trim(demoPrompt) # <<>>
  /\ selectedConnectionId # ""
  /\ ~DemoButtonEnabled
  /\ ~MockButtonEnabled

\* C29: a call of testDemoBackend with a prompt that is empty or white
\* space only sets error to 'Please enter a prompt', and a call with a
\* prompt but no selected connection sets it to 'Please select a database
\* connection'; either call issues no request and leaves loading, result
\* and the run under way, if there is one, as they are.
C29_ValidationOnlySetsError ==
  [][(/\ InvokeTestDemoBackend
      /\ \/ \A i \in 1 .. Len(demoPrompt) : demoPrompt[i] = " "
         \/ selectedConnectionId = "") =>
       /\ pageError' =
            IF \A i \in 1 .. Len(demoPrompt) : demoPrompt[i] = " "
              THEN Message(<<"Please", "enter", "a", "prompt">>)
              ELSE Message(<<"Please", "select", "a", "database",
                             "connection">>)
       /\ requests' = requests
       /\ loading' = loading
       /\ result' = result
       /\ inFlight' = inFlight
       /\ testPc' = testPc]_vars

\* C29 witness: the call with a prompt of white space has set the message
\* while the result of an earlier run is still on the page.
C29_Witness ==
  /\ demoPrompt = <<" ", " ">>
  /\ pageError = Message(<<"Please", "enter", "a", "prompt">>)
  /\ result # NoResult
  /\ ~loading

====
